---- MODULE Spec2Model ----
(***************************************************************************)
(* Model of src/bot.py: a Telegram bot (aiogram 3) that keeps, per user,   *)
(* a profile with water/calorie goals and a ledger of logged water, food   *)
(* and workouts, driven by a per-user finite-state dialog.                 *)
(*                                                                         *)
(* Representation of values                                                *)
(*   - a message text is the sequence of its whitespace-separated words    *)
(*     (what str.split() returns); a word is a sequence of tokens: the     *)
(*     characters of a number are one token each ("-", "1", ".", "5"),     *)
(*     any other run of characters is one opaque token ("abc"); the        *)
(*     Russian workout types of the source are written in Latin letters:   *)
(*     "beg", "plavanie", "joga", "velosiped";                             *)
(*   - a Python float x is represented by the integer 10 * x (FloatScale): *)
(*     the texts of the model carry at most one fractional digit;          *)
(*   - water_goal, calorie_goal and logged_calories are floats with up to  *)
(*     three decimals and are represented by the integer 1000 * x          *)
(*     (MilliScale); logged_water and burned_calories are Python ints;     *)
(*   - a Python dict is a function whose DOMAIN is the set of its keys.    *)
(***************************************************************************)
EXTENDS Integers, Sequences, FiniteSets, Bags, TLC

VARIABLES
    users,   \* bot.py:81   users = {}: user id -> profile + ledger dict
    state,   \* bot.py:77   MemoryStorage: user id -> FSM state (None = idle)
    data,    \* bot.py:77   MemoryStorage: user id -> FSM data dict (the draft)
    tasks,   \* bot.py:349 start_polling runs every update as its own asyncio
             \* task: the bag of handler invocations suspended on an await
             \* of the network (an HTTP lookup or message.answer)
    last,    \* observation of the last handler step: the user, the handler
             \* the dispatcher chose and the reply passed to message.answer
    hist     \* history of each user's profile dialog, recorded in
             \* SpecProfile: the values float() and int() returned in the
             \* steps since the user's latest /set_profile, and the draft
             \* that /set_profile found in the FSM data

vars == <<users, state, data, tasks, last, hist>>

----------------------------------------------------------------------------
(* Bounds of the model *)

\* the transport delivers a ledger-changing message only while the ledger
\* stays within these magnitudes (ml, kcal, kcal)
MaxWaterMl == 100
MaxFoodKcal == 78
MaxBurnedKcal == 150
\* number of handler invocations that may be suspended at once
MaxTasks == 2
\* |logged_calories| stays within this when handlers interleave (kcal)
MaxAsyncFoodKcal == 156

FloatScale == 10
MilliScale == 1000

Users == {"u1", "u2"}
\* the users whose messages the transport delivers in Spec
ActiveUsers == {"u1"}

----------------------------------------------------------------------------
(* Python helpers *)

Digits == {"0", "1", "2", "3", "4", "5", "6", "7", "8", "9"}

DigitVal(c) ==
    CASE c = "0" -> 0 [] c = "1" -> 1 [] c = "2" -> 2 [] c = "3" -> 3
      [] c = "4" -> 4 [] c = "5" -> 5 [] c = "6" -> 6 [] c = "7" -> 7
      [] c = "8" -> 8 [] c = "9" -> 9

IsDigits(s) == Len(s) > 0 /\ \A i \in 1..Len(s) : s[i] \in Digits

RECURSIVE Num(_)
Num(s) == IF s = <<>> THEN 0
          ELSE 10 * Num(SubSeq(s, 1, Len(s) - 1)) + DigitVal(s[Len(s)])

IndexOf(s, c) ==
    IF \E i \in 1..Len(s) : s[i] = c
    THEN CHOOSE i \in 1..Len(s) : s[i] = c /\ \A j \in 1..(i - 1) : s[j] # c
    ELSE 0

\* the word without its sign, and the sign
Unsigned(w) == IF Len(w) > 0 /\ w[1] \in {"-", "+"} THEN Tail(w) ELSE w
Sign(w) == IF Len(w) > 0 /\ w[1] = "-" THEN -1 ELSE 1

\* int(word): [ok |-> FALSE] stands for ValueError
IntOfWord(w) ==
    IF IsDigits(Unsigned(w))
    THEN [ok |-> TRUE, val |-> Sign(w) * Num(Unsigned(w))]
    ELSE [ok |-> FALSE, val |-> 0]

\* float(word), in units of 1/FloatScale: digits, optionally a point and
\* digits, at least one digit in all
FloatOfWord(w) ==
    LET b == Unsigned(w)
        p == IndexOf(b, ".")
        ip == IF p = 0 THEN b ELSE SubSeq(b, 1, p - 1)
        fp == IF p = 0 THEN <<>> ELSE SubSeq(b, p + 1, Len(b))
        wellFormed == /\ ip = <<>> \/ IsDigits(ip)
                      /\ fp = <<>> \/ IsDigits(fp)
                      /\ Len(ip) + Len(fp) > 0
                      /\ Len(fp) <= 1
    IN  IF wellFormed
        THEN [ok |-> TRUE,
              val |-> Sign(w) * (FloatScale * Num(ip) + Num(fp))]
        ELSE [ok |-> FALSE, val |-> 0]

\* int(message.text) / float(message.text): inner whitespace is a ValueError
ParseInt(text) ==
    IF Len(text) = 1 THEN IntOfWord(text[1]) ELSE [ok |-> FALSE, val |-> 0]
ParseFloat(text) ==
    IF Len(text) = 1 THEN FloatOfWord(text[1]) ELSE [ok |-> FALSE, val |-> 0]

\* dict.get(k, default)
Get(d, k, default) == IF k \in DOMAIN d THEN d[k] ELSE default

\* state.update_data(**kw): the dict d updated with the dict kw
Update(d, kw) ==
    [k \in (DOMAIN d) \cup (DOMAIN kw) |-> IF k \in DOMAIN kw THEN kw[k] ELSE d[k]]

EmptyDict == [k \in {} |-> 0]

\* str.lower() on the tokens of a workout type
LowerToken(t) ==
    CASE t = "Beg" -> "beg"
      [] t = "Joga" -> "joga"
      [] t = "Running" -> "running"
      [] OTHER -> t

\* the workout type passed on as typed
Lower_as_typed(w) == w

Lower(w) == [i \in 1..Len(w) |-> LowerToken(w[i])]

\* round(n / d) to the nearest integer (no tie occurs for d = 3)
RoundDiv(n, d) == (2 * n + d) \div (2 * d)

----------------------------------------------------------------------------
(* Message texts *)

Word(t) == <<t>>

TStart        == << Word("/start") >>
THelp         == << Word("/help") >>
TSetProfile   == << Word("/set_profile") >>
TLogWater     == << Word("/log_water") >>
TLogWater100  == << Word("/log_water"), <<"1", "0", "0">> >>
TLogWater200  == << Word("/log_water"), <<"2", "0", "0">> >>
TLogWater9000 == << Word("/log_water"), <<"9", "0", "0", "0">> >>
TLogWaterNeg  == << Word("/log_water"), <<"-", "1", "0", "0">> >>
TLogWaterBad  == << Word("/log_water"), Word("abc") >>
TLogWaterFrac == << Word("/log_water"), <<"1", ".", "5">> >>
TWorkout      == << Word("/log_workout"), Word("Beg") >>
TWorkoutRun15 == << Word("/log_workout"), Word("Beg"), <<"1", "5">> >>
TWorkoutRun45 == << Word("/log_workout"), Word("beg"), <<"4", "5">> >>
TWorkoutNeg   == << Word("/log_workout"), Word("beg"), <<"-", "4", "5">> >>
TWorkoutYoga  == << Word("/log_workout"), Word("Joga"), <<"3", "0">> >>
TWorkoutSwim  == << Word("/log_workout"), Word("plavanie"), <<"6", "0">> >>
TWorkoutCycle == << Word("/log_workout"), Word("velosiped"), <<"2", "9">> >>
TWorkoutOther == << Word("/log_workout"), Word("dance"), <<"1", "0">> >>
TWorkoutBad   == << Word("/log_workout"), Word("beg"), Word("abc") >>
TWorkoutNoType == << Word("/log_workout"), <<"3", "0">> >>
\* the English names of the four types
TWorkoutRunning45 == << Word("/log_workout"), Word("Running"), <<"4", "5">> >>
TWorkoutEnYoga == << Word("/log_workout"), Word("yoga"), <<"3", "0">> >>
TLogFood      == << Word("/log_food") >>
TLogFoodApple == << Word("/log_food"), Word("apple") >>
TCheck        == << Word("/check_progress") >>
T150          == << <<"1", "5", "0">> >>
TNeg150       == << <<"-", "1", "5", "0">> >>
TNeg150p0     == << <<"-", "1", "5", "0", ".", "0">> >>
T1p5          == << <<"1", ".", "5">> >>
TZero         == << <<"0">> >>
TMoscow       == << Word("Moscow") >>
TTwoWords     == << <<"7", "0">>, Word("kg") >>

\* the texts the transport delivers in the behaviours of the model
Texts ==
    { TStart, THelp, TSetProfile,
      TLogWater, TLogWater100,
      TWorkout, TWorkoutRun15,
      TLogFood, TLogFoodApple, TCheck,
      T150, TNeg150p0, TMoscow }

\* the texts every handler is examined on, in every reachable state
ProbeTexts ==
    Texts \cup { TLogWaterNeg, TLogWater200, TLogWater9000, TLogWaterBad, TLogWaterFrac, TWorkoutRun45,
                 TWorkoutNeg, TWorkoutYoga, TWorkoutSwim, TWorkoutCycle,
                 TWorkoutOther, TWorkoutBad, TWorkoutNoType,
                 TWorkoutRunning45, TWorkoutEnYoga, TNeg150, T1p5, TZero, TTwoWords }

----------------------------------------------------------------------------
(* External services: the responses the handlers may receive *)

NoResponse == [status |-> 0, temp |-> 0, products |-> <<>>]

\* get_weather's HTTP exchange: status 200 with main.temp, or another status
WeatherFailure == [status |-> 404, temp |-> 0, products |-> <<>>]
WeatherSuccess(t) == [status |-> 200, temp |-> t, products |-> <<>>]

\* the responses the weather service gives in the behaviours of the model:
\* it knows one city, where it is 26 degrees
WeatherResponses(city) ==
    {WeatherFailure} \cup (IF city = TMoscow THEN {WeatherSuccess(26)} ELSE {})

\* the responses set_city is examined on, for any city
ProbeWeatherResponses ==
    {WeatherFailure} \cup {WeatherSuccess(t) : t \in {-3, 0, 25, 26, 30}}

\* a product's nutriments dict
Kcal52 == [k \in {"energy-kcal_100g"} |-> 52]
NoKcal == EmptyDict

\* the food search's HTTP exchange: a status and the products found
FoodResponse(status, products) ==
    [status |-> status, temp |-> 0, products |-> products]

\* the responses the food search gives in the behaviours of the model
FoodResponses ==
    { FoodResponse(500, <<>>), FoodResponse(200, <<>>),
      FoodResponse(200, <<Kcal52, NoKcal>>) }

\* the responses cmd_log_food is examined on
ProbeFoodResponses ==
    FoodResponses \cup { FoodResponse(200, <<NoKcal, Kcal52>>),
                         FoodResponse(200, <<Kcal52>>) }

----------------------------------------------------------------------------
(* FSM states (aiogram names a State "<group>:<attribute>"; None is idle) *)

IDLE            == "None"
StWeight        == "ProfileState:weight"
StHeight        == "ProfileState:height"
StAge           == "ProfileState:age"
StActivity      == "ProfileState:activity"
StCity          == "ProfileState:city"
StQuantity      == "FoodLoggingState:waiting_for_quantity"

ProfileStates == {StWeight, StHeight, StAge, StActivity, StCity}
States == {IDLE, StQuantity} \cup ProfileStates

\* the first word of the text is the command c (aiogram's Command filter)
IsCommand(text, c) == Len(text) > 0 /\ text[1] = Word(c)

\* Route with the state handlers registered before every command handler
Route_states_first(st, text) ==
    IF st = StWeight THEN "set_weight"
    ELSE IF st = StHeight THEN "set_height"
    ELSE IF st = StAge THEN "set_age"
    ELSE IF st = StActivity THEN "set_activity"
    ELSE IF st = StCity THEN "set_city"
    ELSE IF st = StQuantity THEN "process_food_quantity"
    ELSE IF IsCommand(text, "/start") THEN "cmd_start"
    ELSE IF IsCommand(text, "/help") THEN "cmd_help"
    ELSE IF IsCommand(text, "/set_profile") THEN "cmd_set_profile"
    ELSE IF IsCommand(text, "/log_water") THEN "cmd_log_water"
    ELSE IF IsCommand(text, "/log_workout") THEN "cmd_log_workout"
    ELSE IF IsCommand(text, "/log_food") THEN "cmd_log_food"
    ELSE IF IsCommand(text, "/check_progress") THEN "cmd_check_progress"
    ELSE "unhandled"

\* The handler the dispatcher runs for a text: the first one, in the order
\* of registration, whose filter passes.  A Command filter does not look
\* at the FSM state; a state filter does not look at the text.
Route(st, text) ==
    IF IsCommand(text, "/start") THEN "cmd_start"
    ELSE IF IsCommand(text, "/help") THEN "cmd_help"
    ELSE IF IsCommand(text, "/set_profile") THEN "cmd_set_profile"
    ELSE IF st = StWeight THEN "set_weight"
    ELSE IF st = StHeight THEN "set_height"
    ELSE IF st = StAge THEN "set_age"
    ELSE IF st = StActivity THEN "set_activity"
    ELSE IF st = StCity THEN "set_city"
    ELSE IF IsCommand(text, "/log_water") THEN "cmd_log_water"
    ELSE IF IsCommand(text, "/log_workout") THEN "cmd_log_workout"
    ELSE IF IsCommand(text, "/log_food") THEN "cmd_log_food"
    ELSE IF st = StQuantity THEN "process_food_quantity"
    ELSE IF IsCommand(text, "/check_progress") THEN "cmd_check_progress"
    ELSE "unhandled"

----------------------------------------------------------------------------
(* Handlers.  Each is the function from what the handler reads (the users  *)
(* dict U, the sender's FSM state st and FSM data d, the sender u, the     *)
(* text, the response resp of the external service it calls) to what it    *)
(* leaves behind and the reply it sends.  Reply "none" with raised # "" is *)
(* an exception that leaves the handler before message.answer.  The field  *)
(* shown holds the quantities a handler computes for its reply only.       *)

OutShown(U, st, d, reply, shown) ==
    [users |-> U, state |-> st, data |-> d, reply |-> reply, raised |-> "",
     shown |-> shown]

Out(U, st, d, reply) == OutShown(U, st, d, reply, EmptyDict)

Raise(U, st, d, exc) ==
    [users |-> U, state |-> st, data |-> d, reply |-> "none", raised |-> exc,
     shown |-> EmptyDict]

cmd_start(U, st, d) == Out(U, st, d, "start")

cmd_help(U, st, d) == Out(U, st, d, "help")

\* cmd_set_profile going on to the city when the draft has every field
cmd_set_profile_resume(U, st, d) ==
    Out(U,
        IF {"weight", "height", "age", "activity"} \subseteq DOMAIN d
        THEN StCity ELSE StWeight,
        d, "ask_weight")

cmd_set_profile(U, st, d) == Out(U, StWeight, d, "ask_weight")

\* set_weight going on to the age, the height not asked
set_weight_then_age(U, st, d, text) ==
    LET weight == ParseFloat(text)
    IN  IF weight.ok
        THEN Out(U, StAge, Update(d, [weight |-> weight.val]), "ask_age")
        ELSE Out(U, st, d, "bad_weight")

set_weight(U, st, d, text) ==
    LET weight == ParseFloat(text)
    IN  IF weight.ok
        THEN Out(U, StHeight, Update(d, [weight |-> weight.val]), "ask_height")
        ELSE Out(U, st, d, "bad_weight")

set_height(U, st, d, text) ==
    LET height == ParseFloat(text)
    IN  IF height.ok
        THEN Out(U, StAge, Update(d, [height |-> height.val]), "ask_age")
        ELSE Out(U, st, d, "bad_height")

\* set_age parsing with float() like set_weight and set_height
set_age_float(U, st, d, text) ==
    LET age == ParseFloat(text)
    IN  IF age.ok
        THEN Out(U, StActivity, Update(d, [age |-> age.val]), "ask_activity")
        ELSE Out(U, st, d, "bad_age")

set_age(U, st, d, text) ==
    LET age == ParseInt(text)
    IN  IF age.ok
        THEN Out(U, StActivity, Update(d, [age |-> age.val]), "ask_activity")
        ELSE Out(U, st, d, "bad_age")

set_activity(U, st, d, text) ==
    LET activity == ParseInt(text)
    IN  IF activity.ok
        THEN Out(U, StCity, Update(d, [activity |-> activity.val]), "ask_city")
        ELSE Out(U, st, d, "bad_activity")

\* get_weather's return value is None
TemperatureIsNone(resp) == resp.status # 200

\* water_goal with the extra water from 25 degrees on
WaterGoal_extra_from_25(weight, activity, temperature) ==
    LET extra_water == IF temperature >= 25 THEN 500 ELSE 0
    IN  weight * 30 * (MilliScale \div FloatScale)
        + RoundDiv(activity * 500 * MilliScale, 30)
        + extra_water * MilliScale

\* water_goal and calorie_goal, in units of 1/MilliScale
WaterGoal(weight, activity, temperature) ==
    LET extra_water == IF temperature > 25 THEN 500 ELSE 0
    IN  weight * 30 * (MilliScale \div FloatScale)
        + RoundDiv(activity * 500 * MilliScale, 30)
        + extra_water * MilliScale

CalorieGoal(weight, height, age) ==
    10 * weight * (MilliScale \div FloatScale)
    + (625 * height * (MilliScale \div FloatScale)) \div 100
    - 5 * age * MilliScale

NewProfile(d, city, temperature) ==
    [weight |-> d["weight"],
     height |-> d["height"],
     age |-> d["age"],
     activity |-> d["activity"],
     city |-> city,
     water_goal |-> WaterGoal(d["weight"], d["activity"], temperature),
     calorie_goal |-> CalorieGoal(d["weight"], d["height"], d["age"]),
     logged_water |-> 0,
     logged_calories |-> 0,
     burned_calories |-> 0]

\* the profile stored under every key of the dict, not only the sender's
Put_every_key(U, u, profile) ==
    [k \in (DOMAIN U) \cup {u} |-> profile]

\* users[u] = profile
Put(U, u, profile) ==
    [k \in (DOMAIN U) \cup {u} |-> IF k = u THEN profile ELSE U[k]]

\* set_city updating an existing entry in place, its ledger kept
set_city_keeps_ledger(U, st, d, u, text, resp) ==
    IF TemperatureIsNone(resp)
    THEN Out(U, st, d, "weather_failed")
    ELSE IF ~({"weight", "height", "age", "activity"} \subseteq DOMAIN d)
    THEN Raise(U, st, d, "KeyError")
    ELSE LET new == NewProfile(d, text, resp.temp)
             kept == IF u \in DOMAIN U
                     THEN [new EXCEPT !.logged_water = U[u].logged_water,
                                      !.logged_calories = U[u].logged_calories,
                                      !.burned_calories = U[u].burned_calories]
                     ELSE new
         IN  Out(Put(U, u, kept), IDLE, EmptyDict, "profile_done")

\* set_city ending the dialog when the lookup fails
set_city_clears_on_failure(U, st, d, u, text, resp) ==
    IF TemperatureIsNone(resp)
    THEN Out(U, IDLE, EmptyDict, "weather_failed")
    ELSE IF ~({"weight", "height", "age", "activity"} \subseteq DOMAIN d)
    THEN Raise(U, st, d, "KeyError")
    ELSE Out(Put(U, u, NewProfile(d, text, resp.temp)), IDLE, EmptyDict,
             "profile_done")

set_city(U, st, d, u, text, resp) ==
    IF TemperatureIsNone(resp)
    THEN Out(U, st, d, "weather_failed")
    ELSE IF ~({"weight", "height", "age", "activity"} \subseteq DOMAIN d)
    THEN Raise(U, st, d, "KeyError")
    ELSE Out(Put(U, u, NewProfile(d, text, resp.temp)), IDLE, EmptyDict,
             "profile_done")

Max(a, b) == IF a >= b THEN a ELSE b

\* max(0, user_data["water_goal"] - user_data["logged_water"]), in units of
\* 1/MilliScale
Remaining(user_data) ==
    Max(0, user_data.water_goal - user_data.logged_water * MilliScale)

\* cmd_log_water computing the remaining water before it adds the amount
cmd_log_water_remaining_before(U, st, d, u, text) ==
    IF u \notin DOMAIN U
    THEN Out(U, st, d, "profile_required")
    ELSE LET amount == IF Len(text) >= 2 THEN IntOfWord(text[2])
                       ELSE [ok |-> FALSE, val |-> 0]
             V == [U EXCEPT ![u].logged_water = @ + amount.val]
         IN  IF amount.ok
             THEN OutShown(V, st, d, "water_logged",
                           [remaining |-> Remaining(U[u])])
             ELSE Out(U, st, d, "water_usage")

cmd_log_water(U, st, d, u, text) ==
    IF u \notin DOMAIN U
    THEN Out(U, st, d, "profile_required")
    ELSE LET amount == IF Len(text) >= 2 THEN IntOfWord(text[2])
                       ELSE [ok |-> FALSE, val |-> 0]
             V == [U EXCEPT ![u].logged_water = @ + amount.val]
         IN  IF amount.ok
             THEN OutShown(V, st, d, "water_logged",
                           [remaining |-> Remaining(V[u])])
             ELSE Out(U, st, d, "water_usage")

\* calories_per_minute.get(workout_type, 5): the keys of the table are the
\* Russian words for running, swimming, yoga and cycling
CaloriesPerMinute(workout_type) ==
    CASE workout_type = Word("beg") -> 10
      [] workout_type = Word("plavanie") -> 8
      [] workout_type = Word("joga") -> 4
      [] workout_type = Word("velosiped") -> 6
      [] OTHER -> 5

cmd_log_workout(U, st, d, u, text) ==
    IF u \notin DOMAIN U
    THEN Out(U, st, d, "profile_required")
    ELSE LET workout_data == Tail(text)
         IN  IF Len(workout_data) < 2
             THEN Out(U, st, d, "workout_usage")
             ELSE LET workout_type == workout_data[1]
                      duration == IntOfWord(workout_data[2])
                      burned_calories ==
                          CaloriesPerMinute(Lower(workout_type)) * duration.val
                      additional_water == (duration.val \div 30) * 200
                  IN  IF duration.ok
                      THEN Out([U EXCEPT
                                  ![u].burned_calories = @ + burned_calories,
                                  ![u].logged_water = @ + additional_water],
                               st, d, "workout_logged")
                      ELSE Out(U, st, d, "bad_duration")

\* cmd_log_food taking the last product of the search instead of the first
cmd_log_food_last_product(U, st, d, u, text, resp) ==
    LET food_name == Tail(text)
    IN  IF u \notin DOMAIN U
        THEN Out(U, st, d, "profile_required")
        ELSE IF food_name = <<>>
        THEN Out(U, st, d, "food_usage")
        ELSE IF resp.status # 200
        THEN Out(U, st, d, "food_api_error")
        ELSE IF resp.products = <<>>
        THEN Out(U, st, d, "food_not_found")
        ELSE LET last_product == resp.products[Len(resp.products)]
                 calories == Get(last_product, "energy-kcal_100g", 0)
             IN  Out(U, StQuantity,
                     Update(d, [food_name |-> food_name,
                                calories_per_100g |-> calories]),
                     "ask_quantity")

\* cmd_log_food without the check that the user has a profile
cmd_log_food_no_profile_check(U, st, d, u, text, resp) ==
    LET food_name == Tail(text)
    IN  IF food_name = <<>>
        THEN Out(U, st, d, "food_usage")
        ELSE IF resp.status # 200
        THEN Out(U, st, d, "food_api_error")
        ELSE IF resp.products = <<>>
        THEN Out(U, st, d, "food_not_found")
        ELSE LET first_product == resp.products[1]
                 calories == Get(first_product, "energy-kcal_100g", 0)
             IN  Out(U, StQuantity,
                     Update(d, [food_name |-> food_name,
                                calories_per_100g |-> calories]),
                     "ask_quantity")

cmd_log_food(U, st, d, u, text, resp) ==
    LET food_name == Tail(text)
    IN  IF u \notin DOMAIN U
        THEN Out(U, st, d, "profile_required")
        ELSE IF food_name = <<>>
        THEN Out(U, st, d, "food_usage")
        ELSE IF resp.status # 200
        THEN Out(U, st, d, "food_api_error")
        ELSE IF resp.products = <<>>
        THEN Out(U, st, d, "food_not_found")
        ELSE LET first_product == resp.products[1]
                 calories == Get(first_product, "energy-kcal_100g", 0)
             IN  Out(U, StQuantity,
                     Update(d, [food_name |-> food_name,
                                calories_per_100g |-> calories]),
                     "ask_quantity")

\* the total with an integer division: (calories_per_100g // 100) * grams
TotalCalories_int_div(calories_per_100g, grams) ==
    ((calories_per_100g \div 100) * grams * MilliScale) \div FloatScale

\* (calories_per_100g / 100) * grams, in units of 1/MilliScale
TotalCalories(calories_per_100g, grams) ==
    (calories_per_100g * grams * MilliScale) \div (100 * FloatScale)

process_food_quantity(U, st, d, u, text) ==
    LET grams == ParseFloat(text)
    IN  IF ~grams.ok
        THEN Out(U, st, d, "bad_quantity")
        ELSE IF ~({"food_name", "calories_per_100g"} \subseteq DOMAIN d)
        THEN Raise(U, st, d, "KeyError")
        ELSE IF u \notin DOMAIN U
        THEN Raise(U, st, d, "TypeError")
        ELSE Out([U EXCEPT ![u].logged_calories =
                      @ + TotalCalories(d["calories_per_100g"], grams.val)],
                 IDLE, EmptyDict, "food_logged")

\* the balance taken as burned minus consumed
Balance_burned_minus_logged(user_data) ==
    user_data.burned_calories * MilliScale - user_data.logged_calories

\* user_data["logged_calories"] - user_data["burned_calories"], in units of
\* 1/MilliScale
Balance(user_data) ==
    user_data.logged_calories - user_data.burned_calories * MilliScale

cmd_check_progress(U, st, d, u) ==
    IF u \notin DOMAIN U
    THEN Out(U, st, d, "profile_required")
    ELSE OutShown(U, st, d, "progress",
                  [remaining |-> Remaining(U[u]), balance |-> Balance(U[u])])

\* no handler's filter passes: the update is dropped
unhandled(U, st, d) == Out(U, st, d, "none")

\* the external service the handler h calls on this input
Calls(h, U, u, text) ==
    IF h = "set_city" THEN "weather"
    ELSE IF h = "cmd_log_food" /\ u \in DOMAIN U /\ Tail(text) # <<>> THEN "food"
    ELSE "none"

Handler(h, U, st, d, u, text, resp) ==
    CASE h = "cmd_start" -> cmd_start(U, st, d)
      [] h = "cmd_help" -> cmd_help(U, st, d)
      [] h = "cmd_set_profile" -> cmd_set_profile(U, st, d)
      [] h = "set_weight" -> set_weight(U, st, d, text)
      [] h = "set_height" -> set_height(U, st, d, text)
      [] h = "set_age" -> set_age(U, st, d, text)
      [] h = "set_activity" -> set_activity(U, st, d, text)
      [] h = "set_city" -> set_city(U, st, d, u, text, resp)
      [] h = "cmd_log_water" -> cmd_log_water(U, st, d, u, text)
      [] h = "cmd_log_workout" -> cmd_log_workout(U, st, d, u, text)
      [] h = "cmd_log_food" -> cmd_log_food(U, st, d, u, text, resp)
      [] h = "process_food_quantity" -> process_food_quantity(U, st, d, u, text)
      [] h = "cmd_check_progress" -> cmd_check_progress(U, st, d, u)
      [] OTHER -> unhandled(U, st, d)

\* one update processed from dispatch to the end of its handler
Handle(U, st, d, u, text, resp) == Handler(Route(st, text), U, st, d, u, text, resp)

----------------------------------------------------------------------------
(* The state machine *)

Abs(n) == IF n < 0 THEN -n ELSE n

WithinBounds(U) ==
    \A u \in DOMAIN U :
        /\ Abs(U[u].logged_water) <= MaxWaterMl
        /\ Abs(U[u].logged_calories) <= MaxFoodKcal * MilliScale
        /\ Abs(U[u].burned_calories) <= MaxBurnedKcal

\* the history of a user who has not sent /set_profile
NoPass == [accepted |-> EmptyDict, stale |-> EmptyDict]

Init ==
    /\ users = EmptyDict
    /\ state = [u \in Users |-> IDLE]
    /\ data = [u \in Users |-> EmptyDict]
    /\ tasks = EmptyBag
    /\ last = [user |-> "", handler |-> "", reply |-> "none", raised |-> ""]
    /\ hist = [u \in Users |-> NoPass]

\* the outcome r of handler h for u's message becomes the state
Apply(u, h, r) ==
    /\ WithinBounds(r.users)
    /\ users' = r.users
    /\ state' = [state EXCEPT ![u] = r.state]
    /\ data' = [data EXCEPT ![u] = r.data]
    /\ last' = [user |-> u, handler |-> h, reply |-> r.reply, raised |-> r.raised]
    /\ UNCHANGED tasks

Commit(u, h, r) == Apply(u, h, r) /\ UNCHANGED hist

\* One action per handler: the dispatcher routes (u, text) to the handler,
\* which runs to completion.
CmdStart ==
    \E u \in ActiveUsers, text \in Texts :
        /\ Route(state[u], text) = "cmd_start"
        /\ Commit(u, "cmd_start", cmd_start(users, state[u], data[u]))

CmdHelp ==
    \E u \in ActiveUsers, text \in Texts :
        /\ Route(state[u], text) = "cmd_help"
        /\ Commit(u, "cmd_help", cmd_help(users, state[u], data[u]))

CmdSetProfile ==
    \E u \in ActiveUsers, text \in Texts :
        /\ Route(state[u], text) = "cmd_set_profile"
        /\ Commit(u, "cmd_set_profile", cmd_set_profile(users, state[u], data[u]))

SetWeight ==
    \E u \in ActiveUsers, text \in Texts :
        /\ Route(state[u], text) = "set_weight"
        /\ Commit(u, "set_weight", set_weight(users, state[u], data[u], text))

SetHeight ==
    \E u \in ActiveUsers, text \in Texts :
        /\ Route(state[u], text) = "set_height"
        /\ Commit(u, "set_height", set_height(users, state[u], data[u], text))

SetAge ==
    \E u \in ActiveUsers, text \in Texts :
        /\ Route(state[u], text) = "set_age"
        /\ Commit(u, "set_age", set_age(users, state[u], data[u], text))

SetActivity ==
    \E u \in ActiveUsers, text \in Texts :
        /\ Route(state[u], text) = "set_activity"
        /\ Commit(u, "set_activity", set_activity(users, state[u], data[u], text))

SetCity ==
    \E u \in ActiveUsers, text \in Texts :
        /\ Route(state[u], text) = "set_city"
        /\ \E resp \in WeatherResponses(text) :
             Commit(u, "set_city", set_city(users, state[u], data[u], u, text, resp))

CmdLogWater ==
    \E u \in ActiveUsers, text \in Texts :
        /\ Route(state[u], text) = "cmd_log_water"
        /\ Commit(u, "cmd_log_water", cmd_log_water(users, state[u], data[u], u, text))

CmdLogWorkout ==
    \E u \in ActiveUsers, text \in Texts :
        /\ Route(state[u], text) = "cmd_log_workout"
        /\ Commit(u, "cmd_log_workout",
                  cmd_log_workout(users, state[u], data[u], u, text))

CmdLogFood ==
    \E u \in ActiveUsers, text \in Texts :
        /\ Route(state[u], text) = "cmd_log_food"
        /\ \E resp \in (IF Calls("cmd_log_food", users, u, text) = "food"
                         THEN FoodResponses ELSE {NoResponse}) :
             Commit(u, "cmd_log_food",
                    cmd_log_food(users, state[u], data[u], u, text, resp))

ProcessFoodQuantity ==
    \E u \in ActiveUsers, text \in Texts :
        /\ Route(state[u], text) = "process_food_quantity"
        /\ Commit(u, "process_food_quantity",
                  process_food_quantity(users, state[u], data[u], u, text))

CmdCheckProgress ==
    \E u \in ActiveUsers, text \in Texts :
        /\ Route(state[u], text) = "cmd_check_progress"
        /\ Commit(u, "cmd_check_progress",
                  cmd_check_progress(users, state[u], data[u], u))

Unhandled ==
    \E u \in ActiveUsers, text \in Texts :
        /\ Route(state[u], text) = "unhandled"
        /\ Commit(u, "unhandled", unhandled(users, state[u], data[u]))

Next ==
    \/ CmdStart
    \/ CmdHelp
    \/ CmdSetProfile
    \/ SetWeight
    \/ SetHeight
    \/ SetAge
    \/ SetActivity
    \/ SetCity
    \/ CmdLogWater
    \/ CmdLogWorkout
    \/ CmdLogFood
    \/ ProcessFoodQuantity
    \/ CmdCheckProgress
    \/ Unhandled

Spec == Init /\ [][Next]_vars

----------------------------------------------------------------------------
(* Handlers as asyncio tasks.  Polling starts one task per update, so a    *)
(* handler that awaits the network is suspended there while the handlers   *)
(* of later updates run, also those of the same user.  The FSM storage is  *)
(* in memory: its awaits never suspend.  A handler whose only network      *)
(* await is its final message.answer runs to completion in one step;       *)
(* set_city, cmd_log_food and process_food_quantity touch the state on     *)
(* both sides of a network await and take several steps.                   *)

\* the texts the transport delivers when handlers interleave
AsyncTexts == { TSetProfile, T150, TMoscow, TLogFoodApple }

Suspending == {"set_city", "cmd_log_food", "process_food_quantity"}

\* a suspended invocation: the sender, the handler, the await it is at, the
\* text and the handler's local copy of the FSM data
Task(u, h, pc, text, snap) ==
    [u |-> u, h |-> h, pc |-> pc, text |-> text, snap |-> snap]

Suspend(t) == tasks (+) SetToBag({t})
Finish(t) == tasks (-) SetToBag({t})

Observe(u, h, reply, raised) ==
    [user |-> u, handler |-> h, reply |-> reply, raised |-> raised]

AsyncWithinBounds(U) ==
    \A u \in DOMAIN U :
        Abs(U[u].logged_calories) <= MaxAsyncFoodKcal * MilliScale

\* a handler that does not suspend between its accesses to the state
RunToCompletion ==
    \E u \in ActiveUsers, text \in AsyncTexts :
        LET h == Route(state[u], text)
        IN  /\ h \notin Suspending
            /\ Commit(u, h, Handler(h, users, state[u], data[u], u, text, NoResponse))

\* set_city up to "await get_weather(city)": data = await state.get_data()
SetCityStart ==
    \E u \in ActiveUsers, text \in AsyncTexts :
        /\ Route(state[u], text) = "set_city"
        /\ BagCardinality(tasks) < MaxTasks
        /\ tasks' = Suspend(Task(u, "set_city", "get_weather", text, data[u]))
        /\ last' = Observe(u, "set_city", "none", "")
        /\ UNCHANGED <<users, state, data, hist>>

\* set_city from the weather response to its end
SetCityResume ==
    \E t \in BagToSet(tasks) :
        /\ t.h = "set_city"
        /\ \E resp \in WeatherResponses(t.text) :
             LET r == set_city(users, state[t.u], t.snap, t.u, t.text, resp)
             IN  /\ users' = r.users
                 /\ IF r.reply = "profile_done"
                    THEN /\ state' = [state EXCEPT ![t.u] = r.state]
                         /\ data' = [data EXCEPT ![t.u] = r.data]
                    ELSE UNCHANGED <<state, data>>
                 /\ last' = Observe(t.u, "set_city", r.reply, r.raised)
        /\ tasks' = Finish(t)
        /\ UNCHANGED hist

\* cmd_log_food returning before the search: no profile or no food name
CmdLogFoodRefuse ==
    \E u \in ActiveUsers, text \in AsyncTexts :
        /\ Route(state[u], text) = "cmd_log_food"
        /\ Calls("cmd_log_food", users, u, text) = "none"
        /\ Commit(u, "cmd_log_food",
                  cmd_log_food(users, state[u], data[u], u, text, NoResponse))

\* cmd_log_food up to "async with session.get(FOOD_API_URL, ...)"
CmdLogFoodStart ==
    \E u \in ActiveUsers, text \in AsyncTexts :
        /\ Route(state[u], text) = "cmd_log_food"
        /\ Calls("cmd_log_food", users, u, text) = "food"
        /\ BagCardinality(tasks) < MaxTasks
        /\ tasks' = Suspend(Task(u, "cmd_log_food", "search", text, EmptyDict))
        /\ last' = Observe(u, "cmd_log_food", "none", "")
        /\ UNCHANGED <<users, state, data, hist>>

\* cmd_log_food from the search response to "await message.answer(...)":
\* state.update_data(...) is done, state.set_state(...) is still to come
CmdLogFoodSearched ==
    \E t \in BagToSet(tasks) :
        /\ t.h = "cmd_log_food" /\ t.pc = "search"
        /\ \E resp \in FoodResponses :
             LET r == cmd_log_food(users, state[t.u], data[t.u], t.u, t.text, resp)
             IN  /\ data' = [data EXCEPT ![t.u] = r.data]
                 /\ tasks' = IF r.reply = "ask_quantity"
                             THEN Finish(t) (+) SetToBag({[t EXCEPT !.pc = "answer"]})
                             ELSE Finish(t)
                 /\ last' = Observe(t.u, "cmd_log_food", r.reply, r.raised)
        /\ UNCHANGED <<users, state, hist>>

\* cmd_log_food after its answer: state.set_state(waiting_for_quantity)
CmdLogFoodSetState ==
    \E t \in BagToSet(tasks) :
        /\ t.h = "cmd_log_food" /\ t.pc = "answer"
        /\ state' = [state EXCEPT ![t.u] = StQuantity]
        /\ tasks' = Finish(t)
        /\ last' = Observe(t.u, "cmd_log_food", "none", "")
        /\ UNCHANGED <<users, data, hist>>

\* process_food_quantity leaving through an exception or the re-prompt
ProcessFoodQuantityRefuse ==
    \E u \in ActiveUsers, text \in AsyncTexts :
        LET r == process_food_quantity(users, state[u], data[u], u, text)
        IN  /\ Route(state[u], text) = "process_food_quantity"
            /\ r.reply # "food_logged"
            /\ Commit(u, "process_food_quantity", r)

\* process_food_quantity up to "await message.answer(...)": the kcal are
\* added, state.clear() is still to come
ProcessFoodQuantityAdd ==
    \E u \in ActiveUsers, text \in AsyncTexts :
        LET r == process_food_quantity(users, state[u], data[u], u, text)
        IN  /\ Route(state[u], text) = "process_food_quantity"
            /\ r.reply = "food_logged"
            /\ AsyncWithinBounds(r.users)
            /\ BagCardinality(tasks) < MaxTasks
            /\ users' = r.users
            /\ tasks' = Suspend(Task(u, "process_food_quantity", "answer", text,
                                     EmptyDict))
            /\ last' = Observe(u, "process_food_quantity", r.reply, r.raised)
            /\ UNCHANGED <<state, data, hist>>

\* process_food_quantity after its answer: state.clear()
ProcessFoodQuantityClear ==
    \E t \in BagToSet(tasks) :
        /\ t.h = "process_food_quantity"
        /\ state' = [state EXCEPT ![t.u] = IDLE]
        /\ data' = [data EXCEPT ![t.u] = EmptyDict]
        /\ tasks' = Finish(t)
        /\ last' = Observe(t.u, "process_food_quantity", "none", "")
        /\ UNCHANGED <<users, hist>>

NextAsync ==
    \/ RunToCompletion
    \/ SetCityStart
    \/ SetCityResume
    \/ CmdLogFoodRefuse
    \/ CmdLogFoodStart
    \/ CmdLogFoodSearched
    \/ CmdLogFoodSetState
    \/ ProcessFoodQuantityRefuse
    \/ ProcessFoodQuantityAdd
    \/ ProcessFoodQuantityClear

SpecAsync == Init /\ [][NextAsync]_vars

----------------------------------------------------------------------------
(* Two users.  Polling delivers the updates of all users on one event loop *)
(* and the handlers of different users interleave.  The users dict is      *)
(* keyed by message.from_user.id and the FSM storage by the sender's key,  *)
(* so a handler is given the sender's FSM state and data and the whole     *)
(* users dict.  Each handler runs here from dispatch to its end.           *)

\* the texts the transport delivers to the two users
TwoUserTexts == { TSetProfile, T150, TMoscow, TLogWater, TLogFoodApple }

\* the responses the food search gives to the two users
TwoUserFoodResponses == { FoodResponse(200, <<>>), FoodResponse(200, <<Kcal52>>) }

CmdSetProfileTwo ==
    \E u \in Users, text \in TwoUserTexts :
        /\ Route(state[u], text) = "cmd_set_profile"
        /\ Commit(u, "cmd_set_profile",
                  cmd_set_profile(users, state[u], data[u]))

SetWeightTwo ==
    \E u \in Users, text \in TwoUserTexts :
        /\ Route(state[u], text) = "set_weight"
        /\ Commit(u, "set_weight",
                  set_weight(users, state[u], data[u], text))

SetHeightTwo ==
    \E u \in Users, text \in TwoUserTexts :
        /\ Route(state[u], text) = "set_height"
        /\ Commit(u, "set_height",
                  set_height(users, state[u], data[u], text))

SetAgeTwo ==
    \E u \in Users, text \in TwoUserTexts :
        /\ Route(state[u], text) = "set_age"
        /\ Commit(u, "set_age",
                  set_age(users, state[u], data[u], text))

SetActivityTwo ==
    \E u \in Users, text \in TwoUserTexts :
        /\ Route(state[u], text) = "set_activity"
        /\ Commit(u, "set_activity",
                  set_activity(users, state[u], data[u], text))

SetCityTwo ==
    \E u \in Users, text \in TwoUserTexts :
        /\ Route(state[u], text) = "set_city"
        /\ \E resp \in WeatherResponses(text) :
             Commit(u, "set_city",
                    set_city(users, state[u], data[u], u, text, resp))

CmdLogWaterTwo ==
    \E u \in Users, text \in TwoUserTexts :
        /\ Route(state[u], text) = "cmd_log_water"
        /\ Commit(u, "cmd_log_water",
                  cmd_log_water(users, state[u], data[u], u, text))

CmdLogFoodTwo ==
    \E u \in Users, text \in TwoUserTexts :
        /\ Route(state[u], text) = "cmd_log_food"
        /\ \E resp \in (IF Calls("cmd_log_food", users, u, text) = "food"
                         THEN TwoUserFoodResponses ELSE {NoResponse}) :
             Commit(u, "cmd_log_food",
                    cmd_log_food(users, state[u], data[u], u, text, resp))

ProcessFoodQuantityTwo ==
    \E u \in Users, text \in TwoUserTexts :
        /\ Route(state[u], text) = "process_food_quantity"
        /\ Commit(u, "process_food_quantity",
                  process_food_quantity(users, state[u], data[u], u, text))

UnhandledTwo ==
    \E u \in Users, text \in TwoUserTexts :
        /\ Route(state[u], text) = "unhandled"
        /\ Commit(u, "unhandled",
                  unhandled(users, state[u], data[u]))

NextTwoUsers ==
    \/ CmdSetProfileTwo
    \/ SetWeightTwo
    \/ SetHeightTwo
    \/ SetAgeTwo
    \/ SetActivityTwo
    \/ SetCityTwo
    \/ CmdLogWaterTwo
    \/ CmdLogFoodTwo
    \/ ProcessFoodQuantityTwo
    \/ UnhandledTwo

SpecTwoUsers == Init /\ [][NextTwoUsers]_vars

----------------------------------------------------------------------------
(* The profile dialog with its history.  One user sends /set_profile, two  *)
(* numbers and a city in any order; every step records in hist what it     *)
(* accepted.  The history is not read by any handler.                      *)

\* the texts the transport delivers during the profile dialog
ProfileTexts == { TSetProfile, T150, TNeg150p0, TMoscow }

\* the profile fields of a draft
ProfileFields(d) ==
    [k \in (DOMAIN d) \cap {"weight", "height", "age", "activity"} |-> d[k]]

\* The history of u after handler h has processed text with the outcome r:
\* /set_profile begins a pass and finds the draft of the pass before it; a
\* step that accepts its text adds the value it parsed.
Record(u, h, text, r) ==
    LET accepts(reply, k, v) ==
            IF r.reply = reply
            THEN [hist[u] EXCEPT !.accepted = Update(@, [x \in {k} |-> v])]
            ELSE hist[u]
    IN  CASE h = "cmd_set_profile" ->
                [accepted |-> EmptyDict, stale |-> ProfileFields(data[u])]
          [] h = "set_weight" ->
                accepts("ask_height", "weight", ParseFloat(text).val)
          [] h = "set_height" ->
                accepts("ask_age", "height", ParseFloat(text).val)
          [] h = "set_age" ->
                accepts("ask_activity", "age", ParseInt(text).val)
          [] h = "set_activity" ->
                accepts("ask_city", "activity", ParseInt(text).val)
          [] OTHER -> hist[u]

CommitRecorded(u, h, text, r) ==
    /\ Apply(u, h, r)
    /\ hist' = [hist EXCEPT ![u] = Record(u, h, text, r)]

CmdSetProfileRecorded ==
    \E u \in ActiveUsers, text \in ProfileTexts :
        /\ Route(state[u], text) = "cmd_set_profile"
        /\ CommitRecorded(u, "cmd_set_profile", text,
                          cmd_set_profile(users, state[u], data[u]))

SetWeightRecorded ==
    \E u \in ActiveUsers, text \in ProfileTexts :
        /\ Route(state[u], text) = "set_weight"
        /\ CommitRecorded(u, "set_weight", text,
                          set_weight(users, state[u], data[u], text))

SetHeightRecorded ==
    \E u \in ActiveUsers, text \in ProfileTexts :
        /\ Route(state[u], text) = "set_height"
        /\ CommitRecorded(u, "set_height", text,
                          set_height(users, state[u], data[u], text))

SetAgeRecorded ==
    \E u \in ActiveUsers, text \in ProfileTexts :
        /\ Route(state[u], text) = "set_age"
        /\ CommitRecorded(u, "set_age", text,
                          set_age(users, state[u], data[u], text))

SetActivityRecorded ==
    \E u \in ActiveUsers, text \in ProfileTexts :
        /\ Route(state[u], text) = "set_activity"
        /\ CommitRecorded(u, "set_activity", text,
                          set_activity(users, state[u], data[u], text))

SetCityRecorded ==
    \E u \in ActiveUsers, text \in ProfileTexts :
        /\ Route(state[u], text) = "set_city"
        /\ \E resp \in WeatherResponses(text) :
             CommitRecorded(u, "set_city", text,
                            set_city(users, state[u], data[u], u, text, resp))

NextProfile ==
    \/ CmdSetProfileRecorded
    \/ SetWeightRecorded
    \/ SetHeightRecorded
    \/ SetAgeRecorded
    \/ SetActivityRecorded
    \/ SetCityRecorded

SpecProfile == Init /\ [][NextProfile]_vars

----------------------------------------------------------------------------
(* What the claims are stated with *)

\* the responses a handler is examined on for (u, text) in the current state
ProbeResponses(u, text) ==
    LET c == Calls(Route(state[u], text), users, u, text)
    IN  CASE c = "weather" -> ProbeWeatherResponses
          [] c = "food" -> ProbeFoodResponses
          [] OTHER -> {NoResponse}

\* the outcome of delivering text to u in the current state
Result(u, text, resp) == Handle(users, state[u], data[u], u, text, resp)

Commands ==
    {"/start", "/help", "/set_profile", "/log_water", "/log_workout",
     "/log_food", "/check_progress"}
IsCommandText(text) == \E c \in Commands : IsCommand(text, c)

\* the step handler of a phase, its re-prompt and its parser
PhaseHandler(st) ==
    CASE st = StWeight -> "set_weight"
      [] st = StHeight -> "set_height"
      [] st = StAge -> "set_age"
      [] st = StActivity -> "set_activity"
      [] st = StCity -> "set_city"
      [] st = StQuantity -> "process_food_quantity"
      [] OTHER -> "unhandled"

Reprompt(st) ==
    CASE st = StWeight -> "bad_weight"
      [] st = StHeight -> "bad_height"
      [] st = StAge -> "bad_age"
      [] st = StActivity -> "bad_activity"
      [] st = StQuantity -> "bad_quantity"
      [] OTHER -> "none"

NumericStates == {StWeight, StHeight, StAge, StActivity, StQuantity}

ParsesIn(st, text) ==
    IF st \in {StAge, StActivity} THEN ParseInt(text).ok ELSE ParseFloat(text).ok

Ledger(p) == <<p.logged_water, p.logged_calories, p.burned_calories>>

\* the fields of a users entry that set_city computes or copies
Fixed(p) ==
    <<p.weight, p.height, p.age, p.activity, p.city, p.water_goal,
      p.calorie_goal>>

\* the keys of the FSM data: update_data(weight=...), ..., and
\* update_data(food_name=..., calories_per_100g=...)
ProfileKeys == {"weight", "height", "age", "activity"}
FoodKeys == {"food_name", "calories_per_100g"}

\* drafts a completed dialog leaves in the FSM data: weight 70, height 175,
\* age 25, activity 60; weight 65.5, height 180.3, age 31, activity 10
ProbeDrafts ==
    { [weight |-> 700, height |-> 1750, age |-> 25, activity |-> 60],
      [weight |-> 655, height |-> 1803, age |-> 31, activity |-> 10] }

\* the entries of the users dict under the keys in S
Restrict(U, S) == [k \in (DOMAIN U) \cap S |-> U[k]]

----------------------------------------------------------------------------
(* C1 - ledger quantities are never negative and never decrease *)

\* C1: after every step, each user's logged_water, logged_calories and
\* burned_calories are >= 0, and unless the step is a profile commit none of
\* them is lower than before the step.
C1_LedgerNonNegativeMonotone ==
    [][\A u \in DOMAIN users' :
          /\ users'[u].logged_water >= 0
          /\ users'[u].logged_calories >= 0
          /\ users'[u].burned_calories >= 0
          /\ (u \in DOMAIN users /\ last'.reply # "profile_done") =>
                /\ users'[u].logged_water >= users[u].logged_water
                /\ users'[u].logged_calories >= users[u].logged_calories
                /\ users'[u].burned_calories >= users[u].burned_calories]_vars

----------------------------------------------------------------------------
(* C2 - commands received while a dialog is in progress *)

\* C2 as claimed: in every phase other than idle a command text is handled
\* by the step handler of the phase and by nothing else, and the users dict
\* changes only with a profile commit or a food-kcal accumulation.
C2_OnlyPhaseHandlerFires ==
    \A u \in ActiveUsers, text \in ProbeTexts :
        (state[u] # IDLE /\ IsCommandText(text)) =>
            \A resp \in ProbeResponses(u, text) :
                LET r == Result(u, text, resp)
                IN  /\ Route(state[u], text) = PhaseHandler(state[u])
                    /\ r.users # users => r.reply \in {"profile_done", "food_logged"}

\* C2 as amended: /start and /help are answered in every phase and change
\* nothing; /set_profile is answered in every phase: it sets the phase to
\* AwaitingWeight and keeps the draft and the users dict; in a profile phase
\* the four other commands go to the step handler of the phase, and the
\* users dict changes only with a profile commit; in AwaitingFoodQuantity
\* /check_progress goes to the quantity handler, while /log_water,
\* /log_workout and /log_food run their own handlers, of which the first two
\* keep the phase and the draft and /log_food keeps the phase.
C2_CommandsDuringDialog ==
    \A u \in ActiveUsers, text \in ProbeTexts :
        (state[u] # IDLE /\ IsCommandText(text)) =>
            \A resp \in ProbeResponses(u, text) :
                LET st == state[u]
                    h == Route(st, text)
                    r == Result(u, text, resp)
                    same == r.users = users /\ r.state = st /\ r.data = data[u]
                IN  CASE IsCommand(text, "/start") -> same /\ r.reply = "start"
                      [] IsCommand(text, "/help") -> same /\ r.reply = "help"
                      [] IsCommand(text, "/set_profile") ->
                            /\ r.users = users /\ r.data = data[u]
                            /\ r.state = StWeight /\ r.reply = "ask_weight"
                      [] OTHER ->
                            IF st \in ProfileStates
                            THEN /\ h = PhaseHandler(st)
                                 /\ r.users # users => r.reply = "profile_done"
                                 /\ st # StCity => same /\ r.reply = Reprompt(st)
                            ELSE IF IsCommand(text, "/check_progress")
                            THEN h = "process_food_quantity"
                                 /\ same /\ r.reply = "bad_quantity"
                            ELSE IF IsCommand(text, "/log_food")
                            THEN h = "cmd_log_food" /\ r.state = st
                                 /\ r.users = users
                            ELSE h \in {"cmd_log_water", "cmd_log_workout"}
                                 /\ r.state = st /\ r.data = data[u]

\* a profile-setup request restarted a dialog that had already stored fields
C2_Witness ==
    /\ state["u1"] = StWeight
    /\ last.handler = "cmd_set_profile"
    /\ "height" \in DOMAIN data["u1"]

----------------------------------------------------------------------------
(* C3 - the profile commit *)

\* C3: a text creates a users entry only when it is handled by set_city and
\* the temperature is available, and no entry is ever removed; every such
\* text handled by set_city stores the draft's weight, height, age and
\* activity, the text as city and the goals computed from them, with a
\* zeroed ledger, replacing any earlier entry as a whole, empties the FSM
\* data and returns the FSM state to idle, and touches no other user.
C3_ProfileCommit ==
    \A u \in ActiveUsers, text \in ProbeTexts :
        \A resp \in ProbeResponses(u, text) :
            LET h == Route(state[u], text)
                r == Result(u, text, resp)
                d == data[u]
                committed == h = "set_city" /\ resp.status = 200
            IN  /\ DOMAIN users \subseteq DOMAIN r.users
                /\ DOMAIN r.users # DOMAIN users => committed
                /\ committed =>
                      /\ {"weight", "height", "age", "activity"} \subseteq DOMAIN d
                      /\ DOMAIN r.users = DOMAIN users \cup {u}
                      /\ r.users[u] =
                            [weight |-> d["weight"], height |-> d["height"],
                             age |-> d["age"], activity |-> d["activity"],
                             city |-> text,
                             water_goal |->
                                WaterGoal(d["weight"], d["activity"], resp.temp),
                             calorie_goal |->
                                CalorieGoal(d["weight"], d["height"], d["age"]),
                             logged_water |-> 0, logged_calories |-> 0,
                             burned_calories |-> 0]
                      /\ \A v \in DOMAIN users \ {u} : r.users[v] = users[v]
                      /\ r.state = IDLE
                      /\ r.data = EmptyDict
                      /\ r.reply = "profile_done"

\* set_city has just committed a draft (weight -150.0, height 150): the
\* entry exists with a zeroed ledger, the dialog is closed, the data empty
C3_Witness ==
    /\ last.handler = "set_city" /\ last.reply = "profile_done"
    /\ "u1" \in DOMAIN users
    /\ users["u1"].weight = -1500 /\ users["u1"].height = 1500
    /\ Ledger(users["u1"]) = <<0, 0, 0>>
    /\ state["u1"] = IDLE /\ data["u1"] = EmptyDict

----------------------------------------------------------------------------
(* C4 - invalid input in a numeric phase *)

\* C4 as claimed: in the phases that await a number, every text that does
\* not parse as the number of the phase leaves the FSM state, the FSM data
\* and the users dict as they are and is answered with the re-prompt of the
\* phase.
C4_InvalidInputIsNoOp ==
    \A u \in ActiveUsers, text \in ProbeTexts :
        (state[u] \in NumericStates /\ ~ParsesIn(state[u], text)) =>
            \A resp \in ProbeResponses(u, text) :
                Result(u, text, resp) =
                    Out(users, state[u], data[u], Reprompt(state[u]))

\* C4 as amended: the same for every such text that the dispatcher routes to
\* the step handler of the phase (every text that is not one of the commands
\* registered before that handler); delivering the text again gives the same
\* reply and the same state.
C4_UnparsedInputIsNoOp ==
    \A u \in ActiveUsers, text \in ProbeTexts :
        ( /\ state[u] \in NumericStates
          /\ Route(state[u], text) = PhaseHandler(state[u])
          /\ ~ParsesIn(state[u], text) ) =>
            \A resp \in ProbeResponses(u, text) :
                LET r == Result(u, text, resp)
                IN  /\ r = Out(users, state[u], data[u], Reprompt(state[u]))
                    /\ Handle(r.users, r.state, r.data, u, text, resp) = r

\* a text with a decimal point was refused as an age
C4_Witness ==
    /\ state["u1"] = StAge
    /\ last.handler = "set_age" /\ last.reply = "bad_age"
    /\ DOMAIN data["u1"] = {"weight", "height"}

----------------------------------------------------------------------------
(* C5 - ranges of the profile fields *)

\* C5: every draft and every profile has weight > 0, height > 0, age >= 0
\* and activity >= 0.
C5_FieldsInRange ==
    \A u \in Users :
        /\ "weight" \in DOMAIN data[u] => data[u]["weight"] > 0
        /\ "height" \in DOMAIN data[u] => data[u]["height"] > 0
        /\ "age" \in DOMAIN data[u] => data[u]["age"] >= 0
        /\ "activity" \in DOMAIN data[u] => data[u]["activity"] >= 0
        /\ u \in DOMAIN users =>
              /\ users[u].weight > 0 /\ users[u].height > 0
              /\ users[u].age >= 0 /\ users[u].activity >= 0

----------------------------------------------------------------------------
(* C6 - the weather lookup fails in AwaitingCity *)

\* C6: in AwaitingCity a city text whose lookup fails keeps the FSM state,
\* the FSM data and the users dict and is answered with the failure message;
\* a following city text whose lookup succeeds commits the profile with the
\* values of that same draft.
C6_CityRetryKeepsDraft ==
    \A u \in ActiveUsers :
        state[u] = StCity =>
            \A text \in ProbeTexts :
                Route(StCity, text) = "set_city" =>
                    LET r == Result(u, text, WeatherFailure)
                        d == data[u]
                    IN  /\ r = Out(users, StCity, d, "weather_failed")
                        /\ \A text2 \in {TMoscow, T150, TLogWater100} :
                            \A resp2 \in {WeatherSuccess(25), WeatherSuccess(26)} :
                              LET r2 == Handle(r.users, r.state, r.data, u,
                                               text2, resp2)
                              IN  /\ r2.reply = "profile_done"
                                  /\ r2.state = IDLE
                                  /\ r2.users[u].weight = d["weight"]
                                  /\ r2.users[u].height = d["height"]
                                  /\ r2.users[u].age = d["age"]
                                  /\ r2.users[u].activity = d["activity"]
                                  /\ r2.users[u].city = text2

\* a lookup has failed and the dialog is still open with its draft
C6_Witness ==
    /\ state["u1"] = StCity
    /\ last.handler = "set_city" /\ last.reply = "weather_failed"
    /\ DOMAIN data["u1"] = {"weight", "height", "age", "activity"}

----------------------------------------------------------------------------
(* C7 - start of the food dialog *)

\* C7: for an idle user a /log_food text starts the food dialog exactly when
\* the user has a profile, the food name is not empty and the search returns
\* status 200 with at least one product: the FSM data then is the food name
\* with the kcal per 100 g of the first product (0 when it has none) and the
\* FSM state is waiting_for_quantity; otherwise the FSM state stays idle and
\* the FSM data empty; the users dict is unchanged in both cases.
C7_FoodDialogStart ==
    \A u \in ActiveUsers, text \in ProbeTexts :
        (state[u] = IDLE /\ IsCommand(text, "/log_food")) =>
            \A resp \in ProbeResponses(u, text) :
                LET r == Result(u, text, resp)
                    found == /\ u \in DOMAIN users
                             /\ Tail(text) # <<>>
                             /\ resp.status = 200
                             /\ resp.products # <<>>
                IN  /\ r.users = users
                    /\ found =>
                          /\ r.state = StQuantity
                          /\ r.data = [food_name |-> Tail(text),
                                       calories_per_100g |->
                                          IF "energy-kcal_100g" \in DOMAIN resp.products[1]
                                          THEN resp.products[1]["energy-kcal_100g"]
                                          ELSE 0]
                    /\ ~found => r.state = IDLE /\ r.data = EmptyDict

\* a food dialog was started from idle with the first product's 52 kcal
C7_Witness ==
    /\ state["u1"] = StQuantity
    /\ last.handler = "cmd_log_food" /\ last.reply = "ask_quantity"
    /\ data["u1"] = [food_name |-> Tail(TLogFoodApple), calories_per_100g |-> 52]

----------------------------------------------------------------------------
(* C8 - the quantity step of the food dialog *)

\* C8: in waiting_for_quantity with calories_per_100g = c, a text that the
\* quantity handler parses as g grams adds exactly c / 100 * g to
\* logged_calories, leaves every other field of the profile and every other
\* user unchanged, empties the FSM data and returns the FSM state to idle;
\* c = 52 and g = 150 add exactly 78.
C8_FoodQuantity ==
    \A u \in ActiveUsers, text \in ProbeTexts :
        ( /\ state[u] = StQuantity
          /\ Route(StQuantity, text) = "process_food_quantity"
          /\ ParseFloat(text).ok ) =>
            LET r == Result(u, text, NoResponse)
                g == ParseFloat(text).val
                c == data[u]["calories_per_100g"]
                added == r.users[u].logged_calories - users[u].logged_calories
            IN  /\ DOMAIN r.users = DOMAIN users
                /\ 100 * FloatScale * added = c * g * MilliScale
                /\ (c = 52 /\ text = T150) => added = 78 * MilliScale
                /\ r.users = [users EXCEPT ![u].logged_calories = @ + added]
                /\ r.state = IDLE
                /\ r.data = EmptyDict
                /\ r.reply = "food_logged"

\* 150 g of a 52 kcal product were logged on top of a workout and water
C8_Witness ==
    /\ last.handler = "process_food_quantity" /\ last.reply = "food_logged"
    /\ "u1" \in DOMAIN users
    /\ Ledger(users["u1"]) = <<100, 78 * MilliScale, 150>>
    /\ state["u1"] = IDLE /\ data["u1"] = EmptyDict

----------------------------------------------------------------------------
(* C9 - ledger commands without a profile *)

\* C9: when cmd_log_water, cmd_log_workout, cmd_log_food or
\* cmd_check_progress runs for a user who has no users entry, it answers
\* "profile required", calls no external service and leaves the users dict,
\* the FSM state and the FSM data as they are.
C9_ProfileRequired ==
    \A u \in ActiveUsers, text \in ProbeTexts :
        LET h == Route(state[u], text)
        IN  ( /\ u \notin DOMAIN users
              /\ h \in {"cmd_log_water", "cmd_log_workout", "cmd_log_food",
                        "cmd_check_progress"} ) =>
                /\ Calls(h, users, u, text) = "none"
                /\ \A resp \in {NoResponse} \cup ProbeFoodResponses :
                      Result(u, text, resp) =
                          Out(users, state[u], data[u], "profile_required")

\* /log_food was refused for a user without a profile
C9_Witness ==
    /\ "u1" \notin DOMAIN users
    /\ last.user = "u1" /\ last.handler = "cmd_log_food"
    /\ last.reply = "profile_required"
    /\ state["u1"] = IDLE /\ data["u1"] = EmptyDict

----------------------------------------------------------------------------
(* C10 - two inputs of one user are processed as if serialized *)

\* C10: no update of a user is dispatched while a handler of that user is
\* suspended between its read of the FSM state or data and its writes; in
\* particular no second amount is added to logged_calories while the
\* quantity handler that added the first has not yet cleared the dialog,
\* and no profile is committed while another commit of the same dialog is
\* pending.
C10_Serialized ==
    [][ /\ BagCardinality(tasks') >= BagCardinality(tasks) =>
              \A t \in BagToSet(tasks) : t.u # last'.user
        /\ \A u \in (DOMAIN users) \cap (DOMAIN users') :
              users'[u].logged_calories # users[u].logged_calories =>
                  \A t \in BagToSet(tasks) :
                      ~(t.u = u /\ t.h = "process_food_quantity")
        /\ \A u \in DOMAIN users' :
              (last'.reply = "profile_done" /\ last'.user = u) =>
                  \A t \in BagToSet(tasks') :
                      ~(t.u = u /\ t.h = "set_city") ]_vars

\* C10, the quantity handler alone: one food dialog adds to logged_calories
\* at most once.
C10_OneAddPerFoodDialog ==
    [][ \A u \in (DOMAIN users) \cap (DOMAIN users') :
            users'[u].logged_calories # users[u].logged_calories =>
                \A t \in BagToSet(tasks) :
                    ~(t.u = u /\ t.h = "process_food_quantity") ]_vars

----------------------------------------------------------------------------
(* C11 - two users never interfere *)

\* C11: in every state reached by interleaving the inputs of two users, and
\* for every text delivered to a user u there: the handler leaves the users
\* entries of everyone else exactly as they are (none added, removed or
\* changed), and what it does to u (FSM state, FSM data, users entry, reply)
\* is what it does when the users dict holds u's entry only; the FSM state
\* and data of the others are not given to the handler.  So each user's
\* state after the interleaving is that after the user's own inputs alone.
C11_UsersIsolated ==
    \A u \in Users, text \in ProbeTexts :
        \A resp \in ProbeResponses(u, text) :
            LET r == Result(u, text, resp)
                alone == Handle(Restrict(users, {u}), state[u], data[u],
                                u, text, resp)
            IN  /\ Restrict(r.users, Users \ {u}) = Restrict(users, Users \ {u})
                /\ DOMAIN r.users \subseteq Users
                /\ Restrict(r.users, {u}) = alone.users
                /\ r.state = alone.state
                /\ r.data = alone.data
                /\ r.reply = alone.reply
                /\ r.shown = alone.shown
                /\ r.raised = alone.raised

\* u1 has just logged 78 kcal while u2, who has a profile with an empty
\* ledger, is in the middle of a food dialog of its own
C11_Witness ==
    /\ last.user = "u1" /\ last.reply = "food_logged"
    /\ {"u1", "u2"} \subseteq DOMAIN users
    /\ users["u1"].logged_calories = 78 * MilliScale
    /\ users["u2"].logged_calories = 0
    /\ state["u1"] = IDLE
    /\ state["u2"] = StQuantity
    /\ "food_name" \in DOMAIN data["u2"]

----------------------------------------------------------------------------
(* C12 - logging water *)

\* C12: when cmd_log_water runs for a user with a profile, a text whose
\* second word is an integer a adds exactly a to logged_water and changes
\* nothing else (users dict, FSM state, FSM data), and the reply carries
\* remaining = max(0, water_goal - logged_water) with logged_water taken
\* after the addition: it is 0 once logged_water has reached the goal and
\* never negative; 100 and 200 logged in either order leave the same users
\* dict, with logged_water 300 higher; a text without a second word or
\* whose second word is not an integer changes nothing and is answered with
\* the usage message.
C12_LogWater ==
    \A u \in ActiveUsers :
        (u \in DOMAIN users /\ Route(state[u], TLogWater) = "cmd_log_water") =>
            /\ \A text \in ProbeTexts :
                  IsCommand(text, "/log_water") =>
                    LET r == Result(u, text, NoResponse)
                        valid == Len(text) >= 2 /\ IntOfWord(text[2]).ok
                        a == IntOfWord(text[2]).val
                        after == users[u].logged_water + a
                    IN  IF valid
                        THEN /\ r.users = [users EXCEPT ![u].logged_water = after]
                             /\ r.state = state[u]
                             /\ r.data = data[u]
                             /\ r.reply = "water_logged"
                             /\ r.shown.remaining >= 0
                             /\ IF after * MilliScale >= users[u].water_goal
                                THEN r.shown.remaining = 0
                                ELSE r.shown.remaining =
                                        users[u].water_goal - after * MilliScale
                        ELSE r = Out(users, state[u], data[u], "water_usage")
            /\ LET r1 == Result(u, TLogWater100, NoResponse)
                   r12 == Handle(r1.users, r1.state, r1.data, u, TLogWater200,
                                 NoResponse)
                   r2 == Result(u, TLogWater200, NoResponse)
                   r21 == Handle(r2.users, r2.state, r2.data, u, TLogWater100,
                                 NoResponse)
               IN  /\ r12.users = r21.users
                   /\ r12.users[u].logged_water = users[u].logged_water + 300
                   /\ r12.shown = r21.shown

\* 100 ml were logged against a goal of 7500 ml
C12_Witness ==
    /\ last.handler = "cmd_log_water" /\ last.reply = "water_logged"
    /\ "u1" \in DOMAIN users
    /\ users["u1"].logged_water = 100
    /\ users["u1"].water_goal = 7500 * MilliScale

----------------------------------------------------------------------------
(* C13 - logging a workout *)

\* C13 as claimed: when cmd_log_workout runs for a user with a profile, a
\* text with a type and an integer duration d adds rate * d to
\* burned_calories, where the rate is 10 for the type "running", 8 for
\* "swimming", 4 for "yoga", 6 for "cycling" (in any letter case) and 5 for
\* any other type, adds (d integer-divided by 30) * 200 to logged_water and
\* changes nothing else; 45 minutes of "running" add 450 kcal and 200 ml,
\* 10 minutes of an unknown type 50 kcal and 0 ml; a text without a type or
\* a duration, or with a duration that is not an integer, changes nothing
\* and is answered with a usage message.
C13_RatesByEnglishName ==
    \A u \in ActiveUsers, text \in ProbeTexts :
        ( /\ u \in DOMAIN users
          /\ IsCommand(text, "/log_workout")
          /\ Route(state[u], text) = "cmd_log_workout" ) =>
            LET r == Result(u, text, NoResponse)
                valid == Len(text) >= 3 /\ IntOfWord(text[3]).ok
                d == IntOfWord(text[3]).val
                type == text[2]
                rate == CASE type \in {Word("running"), Word("Running")} -> 10
                          [] type \in {Word("swimming")} -> 8
                          [] type \in {Word("yoga"), Word("Yoga")} -> 4
                          [] type \in {Word("cycling")} -> 6
                          [] OTHER -> 5
                burned == r.users[u].burned_calories - users[u].burned_calories
                water == r.users[u].logged_water - users[u].logged_water
            IN  /\ r.state = state[u]
                /\ r.data = data[u]
                /\ IF valid
                   THEN /\ r.users = [users EXCEPT
                                        ![u].burned_calories = @ + rate * d,
                                        ![u].logged_water = @ + (d \div 30) * 200]
                        /\ r.reply = "workout_logged"
                   ELSE /\ r.users = users
                        /\ r.reply \in {"workout_usage", "bad_duration"}
                /\ text = TWorkoutRunning45 => burned = 450 /\ water = 200
                /\ text = TWorkoutOther => burned = 50 /\ water = 0

\* C13 as amended: the same with the rates 10, 8, 4 and 6 for the Russian
\* type names the table of the source holds (the words for running,
\* swimming, yoga and cycling, in any letter case) and 5 for any other type,
\* the English names included: 45 minutes of the Russian word for running
\* add 450 kcal and 200 ml, 45 minutes of "Running" add 225 kcal and 200 ml;
\* the integer division rounds down, also for a negative duration.
C13_RatesByRussianName ==
    \A u \in ActiveUsers, text \in ProbeTexts :
        ( /\ u \in DOMAIN users
          /\ IsCommand(text, "/log_workout")
          /\ Route(state[u], text) = "cmd_log_workout" ) =>
            LET r == Result(u, text, NoResponse)
                valid == Len(text) >= 3 /\ IntOfWord(text[3]).ok
                d == IntOfWord(text[3]).val
                type == text[2]
                rate == CASE type \in {Word("beg"), Word("Beg")} -> 10
                          [] type \in {Word("plavanie")} -> 8
                          [] type \in {Word("joga"), Word("Joga")} -> 4
                          [] type \in {Word("velosiped")} -> 6
                          [] OTHER -> 5
                burned == r.users[u].burned_calories - users[u].burned_calories
                water == r.users[u].logged_water - users[u].logged_water
            IN  /\ r.state = state[u]
                /\ r.data = data[u]
                /\ IF valid
                   THEN /\ r.users = [users EXCEPT
                                        ![u].burned_calories = @ + rate * d,
                                        ![u].logged_water = @ + (d \div 30) * 200]
                        /\ r.reply = "workout_logged"
                   ELSE /\ r.users = users
                        /\ r.reply \in {"workout_usage", "bad_duration"}
                /\ text = TWorkoutRun45 => burned = 450 /\ water = 200
                /\ text = TWorkoutOther => burned = 50 /\ water = 0
                /\ text = TWorkoutRunning45 => burned = 225 /\ water = 200
                /\ text = TWorkoutNeg => burned = -450 /\ water = -400

\* 15 minutes of the Russian word for running, capitalised, were logged at
\* the rate 10, with no water added
C13_Witness ==
    /\ last.handler = "cmd_log_workout" /\ last.reply = "workout_logged"
    /\ "u1" \in DOMAIN users
    /\ users["u1"].burned_calories = 150
    /\ users["u1"].logged_water = 0

----------------------------------------------------------------------------
(* C14 - the goals of a committed profile *)

\* C14: every profile set_city commits, from the draft of a reachable state
\* or from a draft of ProbeDrafts and for every temperature, has water_goal
\* = weight * 30 + activity / 30 * 500 + bonus rounded to 3 decimals, with
\* bonus 500 when the temperature is above 25 and 0 otherwise (0 at exactly
\* 25), and calorie_goal = 10 * weight + 6.25 * height - 5 * age; weight 70,
\* activity 60 and 30 degrees give 3600, weight 70, height 175 and age 25
\* give 1668.75.
C14_Goals ==
    \A u \in ActiveUsers :
        \A d \in (IF state[u] = StCity THEN {data[u]} ELSE {}) \cup ProbeDrafts :
            \A resp \in ProbeWeatherResponses :
                resp.status = 200 =>
                    LET r == Handle(users, StCity, d, u, TMoscow, resp)
                        p == r.users[u]
                        bonus == IF resp.temp > 25 THEN 500 ELSE 0
                        \* 3 * the exact water goal, in 1/MilliScale
                        exact3 == 3 * 30 * d.weight * (MilliScale \div FloatScale)
                                  + d.activity * 500 * (MilliScale \div 10)
                                  + 3 * bonus * MilliScale
                    IN  /\ r.reply = "profile_done"
                        /\ Abs(3 * p.water_goal - exact3) <= 1
                        /\ p.calorie_goal * FloatScale =
                              MilliScale * (10 * d.weight) + 625 * 10 * d.height
                              - MilliScale * FloatScale * 5 * d.age
                        /\ (d.weight = 700 /\ d.activity = 60 /\ resp.temp = 30) =>
                              p.water_goal = 3600 * MilliScale
                        /\ (d.weight = 700 /\ d.activity = 60 /\ resp.temp = 25) =>
                              p.water_goal = 3100 * MilliScale
                        /\ (d.weight = 700 /\ d.height = 1750 /\ d.age = 25) =>
                              p.calorie_goal = 1668750

\* a profile was committed at 26 degrees from weight, height, age and
\* activity 150: 4500 + 2500 + 500 ml and 1500 + 937.5 - 750 kcal
C14_Witness ==
    /\ last.handler = "set_city" /\ last.reply = "profile_done"
    /\ "u1" \in DOMAIN users
    /\ users["u1"].weight = 1500 /\ users["u1"].activity = 150
    /\ users["u1"].water_goal = 7500 * MilliScale
    /\ users["u1"].calorie_goal = 1687500

----------------------------------------------------------------------------
(* C15 - one reply for every input *)

\* C15: in every reachable state, every text delivered to a user, whatever
\* the response of the external service its handler calls, is answered with
\* one reply: some handler runs, it sends a reply and no exception leaves it
\* before the reply.
C15_ExactlyOneReply ==
    \A u \in ActiveUsers, text \in ProbeTexts :
        \A resp \in ProbeResponses(u, text) :
            LET r == Result(u, text, resp)
            IN  /\ Route(state[u], text) # "unhandled"
                /\ r.reply # "none"
                /\ r.raised = ""

----------------------------------------------------------------------------
(* C16 - the FSM data matches the FSM state *)

\* C16: after every processed input, for every user: in the idle state the
\* FSM data is empty; weight, height, age or activity are in the FSM data
\* only while the state is one of the five profile states; food_name or
\* calories_per_100g are in the FSM data only while the state is
\* waiting_for_quantity; so the data never holds the drafts of two dialogs.
C16_DataMatchesPhase ==
    \A u \in Users :
        /\ state[u] = IDLE => data[u] = EmptyDict
        /\ (DOMAIN data[u]) \cap ProfileKeys # {} => state[u] \in ProfileStates
        /\ (DOMAIN data[u]) \cap FoodKeys # {} => state[u] = StQuantity
        /\ ~( (DOMAIN data[u]) \cap ProfileKeys # {}
              /\ (DOMAIN data[u]) \cap FoodKeys # {} )

----------------------------------------------------------------------------
(* C17 - the profile draft is filled in order *)

\* C17: in every reachable state, for every user, the profile fields in the
\* FSM data are a prefix of weight, height, age, activity; in the height
\* state the weight is set, in the age state weight and height, in the
\* activity state these and the age, and in the city state all four, so
\* that set_city finds every field it reads, whatever the city text and the
\* temperature; this also after /set_profile in the middle of a dialog.
C17_DraftPrefix ==
    \A u \in Users :
        LET K == (DOMAIN data[u]) \cap ProfileKeys
        IN  /\ K \in { {}, {"weight"}, {"weight", "height"},
                       {"weight", "height", "age"}, ProfileKeys }
            /\ state[u] = StHeight => "weight" \in K
            /\ state[u] = StAge => {"weight", "height"} \subseteq K
            /\ state[u] = StActivity => {"weight", "height", "age"} \subseteq K
            /\ state[u] = StCity =>
                  /\ K = ProfileKeys
                  /\ \A text \in ProbeTexts :
                        \A resp \in ProbeResponses(u, text) :
                            Result(u, text, resp).raised = ""

\* after a complete draft, /set_profile restarted the dialog and a new
\* weight was accepted: the state awaits the height, the data holds all
\* four fields
C17_Witness ==
    /\ state["u1"] = StHeight
    /\ last.handler = "set_weight" /\ last.reply = "ask_height"
    /\ ProfileKeys \subseteq DOMAIN data["u1"]

----------------------------------------------------------------------------
(* C18 - what the ledger operations leave alone *)

\* C18: for a user with a profile, every text that does not end in a
\* profile commit (so every text handled by cmd_log_water, cmd_log_workout,
\* cmd_log_food, process_food_quantity or cmd_check_progress) leaves weight,
\* height, age, activity, city, water_goal and calorie_goal of the user's
\* entry as they are; cmd_check_progress changes neither the users dict nor
\* the FSM state nor the FSM data, and its reply carries remaining =
\* max(0, water_goal - logged_water) and balance = logged_calories -
\* burned_calories.
C18_Frame ==
    \A u \in ActiveUsers, text \in ProbeTexts :
        u \in DOMAIN users =>
            \A resp \in ProbeResponses(u, text) :
                LET h == Route(state[u], text)
                    r == Result(u, text, resp)
                    p == users[u]
                IN  /\ u \in DOMAIN r.users
                    /\ h \in {"cmd_log_water", "cmd_log_workout", "cmd_log_food",
                              "process_food_quantity", "cmd_check_progress"} =>
                          r.reply # "profile_done"
                    /\ r.reply # "profile_done" => Fixed(r.users[u]) = Fixed(p)
                    /\ h = "cmd_check_progress" =>
                          /\ r.users = users
                          /\ r.state = state[u]
                          /\ r.data = data[u]
                          /\ r.reply = "progress"
                          /\ r.shown.remaining =
                                (IF p.logged_water * MilliScale >= p.water_goal
                                 THEN 0
                                 ELSE p.water_goal - p.logged_water * MilliScale)
                          /\ r.shown.balance =
                                p.logged_calories - p.burned_calories * MilliScale

\* the progress was reported for a ledger of 100 ml, 78 kcal eaten and
\* 150 kcal burned: the balance is -72 kcal
C18_Witness ==
    /\ last.handler = "cmd_check_progress" /\ last.reply = "progress"
    /\ "u1" \in DOMAIN users
    /\ Ledger(users["u1"]) = <<100, 78 * MilliScale, 150>>
    /\ Balance(users["u1"]) = -72 * MilliScale

----------------------------------------------------------------------------
(* C19 - what the quantity handler relies on *)

\* C19: in every reachable state, a user whose FSM state is
\* waiting_for_quantity has a users entry and an FSM data with food_name and
\* calories_per_100g, so that process_food_quantity raises neither a
\* KeyError nor a TypeError on any text.
C19_QuantityPhaseHasProfileAndDraft ==
    \A u \in Users :
        state[u] = StQuantity =>
            /\ u \in DOMAIN users
            /\ FoodKeys \subseteq DOMAIN data[u]
            /\ \A text \in ProbeTexts :
                  process_food_quantity(users, state[u], data[u], u, text).raised = ""

----------------------------------------------------------------------------
(* C20 - the committed values are those of the latest pass *)

\* C20: in every reachable state of the profile dialog, for every user: the
\* values accepted since the latest /set_profile are exactly the fields of
\* the steps before the current state (none in the weight state, all four
\* in the city state), and the FSM data holds these values under their
\* keys, whatever the pass before left there; every commit from the city
\* state stores the four accepted values, and the entry a commit has just
\* stored holds them.
C20_CommitsLatestAccepted ==
    \A u \in ActiveUsers :
        LET acc == hist[u].accepted
            K == DOMAIN acc
        IN  /\ state[u] = StWeight => K = {}
            /\ state[u] = StHeight => K = {"weight"}
            /\ state[u] = StAge => K = {"weight", "height"}
            /\ state[u] = StActivity => K = {"weight", "height", "age"}
            /\ state[u] = StCity => K = ProfileKeys
            /\ state[u] \in ProfileStates =>
                  \A k \in K : k \in DOMAIN data[u] /\ data[u][k] = acc[k]
            /\ state[u] = StCity =>
                  \A text \in {TMoscow, T150}, resp \in ProbeWeatherResponses :
                      resp.status = 200 =>
                          LET p == Result(u, text, resp).users[u]
                          IN  /\ p.weight = acc["weight"]
                              /\ p.height = acc["height"]
                              /\ p.age = acc["age"]
                              /\ p.activity = acc["activity"]
            /\ (last.user = u /\ last.reply = "profile_done") =>
                  /\ K = ProfileKeys
                  /\ users[u].weight = acc["weight"]
                  /\ users[u].height = acc["height"]
                  /\ users[u].age = acc["age"]
                  /\ users[u].activity = acc["activity"]

\* a pass was abandoned with weight 150 and height 150 in the draft; the
\* pass after it accepted -150.0 for both and was committed with them
C20_Witness ==
    /\ last.user = "u1" /\ last.reply = "profile_done"
    /\ hist["u1"].stale = [weight |-> 1500, height |-> 1500]
    /\ users["u1"].weight = -1500
    /\ users["u1"].height = -1500

====
